---- MODULE Spec2Model ----
(***************************************************************************)
(* Model of the AI agent platform backend (src/app).  The persistent      *)
(* store holds three tables (agent, chat_session, message).  Every HTTP   *)
(* request is served by one of NumReq request slots; a handler that can   *)
(* be suspended or pre-empted between two store accesses is modelled as   *)
(* one action per step, all the others as one action for the whole        *)
(* handler.                                                                *)
(***************************************************************************)
EXTENDS Integers, Sequences, FiniteSets, TLC

\* ------------------------------------------------------------------ bounds
NumReq == 2          \* request slots that may be in flight at once
MaxAgents == 2       \* agent ids ever allocated
MaxSessions == 3     \* chat session ids ever allocated
MaxMessages == 4     \* message rows ever inserted
MaxTime == 1         \* largest clock reading
MaxRequests == 4     \* requests accepted over a run

Req == 1..NumReq
Time == 0..MaxTime

\* Python's None, and a field that the JSON body does not carry
None == "None"
NoId == 0

\* request bodies the clients send
AgentCreateBodies == {[name |-> "A", instructions |-> "I"]}
\* AgentUpdate: every field is optional and may also be sent as null
AgentUpdateBodies ==
    {[f \in S |-> IF f = "name" THEN n ELSE "J"] :
        S \in SUBSET {"name", "instructions"}, n \in {"B", None}}
ChatSessionCreateBodies == {[name |-> n] : n \in {None, "", "x"}}
ChatSessionUpdateBodies ==
    {[f \in S |-> IF f = "name" THEN "y" ELSE 0] : S \in SUBSET {"name", "created_at"}}
MessageCreateBodies == {[content |-> "hi", role |-> "user"], [content |-> "yo", role |-> "assistant"]}
Replies == {"ok"}

\* the environment variables that get_openai_agent_response requires, and the sets of
\* them that the process may have been started with: all of them, or all but one
Required == {"BASE_URL", "API_KEY", "MODEL_NAME"}
Environments == {Required} \cup {Required \ {n} : n \in Required}

VARIABLES
    agents,         \* table agent: id -> [name, instructions]
    sessions,       \* table chat_session: id -> [agent_id, name, created_at]
    messages,       \* table message, in rowid order: <<[id, chat_session_id, role, content, created_at]>>
    nextAgentId,    \* ids handed out so far (uuid4: never reused)
    nextSessionId,
    now,            \* last reading of the UTC clock
    nreq,           \* requests accepted so far
    env,            \* environment variables that are set to a non-empty value
    autoNamed,      \* history: session id -> <<agent_id, name>> of every session named by default
    pc,             \* per request slot: position of the handler
    op,             \* per request slot: the handler serving it
    arg,            \* per request slot: path parameters and JSON body
    loc,            \* per request slot: the handler's local variables
    resp,           \* per request slot: the HTTP response
    pre             \* per request slot: the store when the request arrived

store == <<agents, sessions, messages, nextAgentId, nextSessionId, now, autoNamed>>
vars == <<agents, sessions, messages, nextAgentId, nextSessionId, now, nreq, env, autoNamed, pc, op, arg, loc, resp, pre>>

\* ------------------------------------------------------------------ HTTP
HTTP_200_OK == 200
HTTP_201_CREATED == 201
HTTP_404_NOT_FOUND == 404
HTTP_500_INTERNAL_SERVER_ERROR == 500

NoBody == [kind |-> "none"]
NoResponse == [status |-> 0, detail |-> None, body |-> NoBody]
Response(status, body) == [status |-> status, detail |-> None, body |-> body]
HTTPException(status, detail) == [status |-> status, detail |-> detail, body |-> NoBody]

Terminal == {"Done", "Aborted"}
\* slot p can take a request
Free(p) == pc[p] \in {"idle"} \cup Terminal /\ nreq < MaxRequests

\* the value of chat_session_history before line 177 has assigned it
NoHistory == <<[content |-> None, role |-> None]>>
NoArg == [agent_id |-> NoId, chat_session_id |-> NoId, body |-> <<>>]
NoLocals == [count |-> 0, chat_session |-> NoId, db_user_message |-> NoId,
             chat_session_history |-> NoHistory, runner_input |-> None,
             openai_agent_response |-> None, db_agent_response_message |-> NoId,
             missing |-> {}, retry_of |-> NoId]
Snapshot == [agents |-> agents, sessions |-> sessions, messages |-> messages]

\* ------------------------------------------------------------------ store
\* session.get(Agent, agent_id)
GetAgent(agent_id) == IF agent_id \in DOMAIN agents THEN agent_id ELSE NoId

\* select(ChatSession).where(id == chat_session_id).where(agent_id == agent_id).first()
FindChatSessionAnyAgent(chat_session_id, agent_id) ==
    IF chat_session_id \in DOMAIN sessions THEN chat_session_id ELSE NoId
FindChatSession(chat_session_id, agent_id) ==
    IF chat_session_id \in DOMAIN sessions /\ sessions[chat_session_id].agent_id = agent_id
    THEN chat_session_id ELSE NoId

\* select(func.count()).select_from(ChatSession).where(agent_id == agent_id).one()
CountAllChatSessions(agent_id) == Cardinality(DOMAIN sessions)
CountChatSessions(agent_id) ==
    Cardinality({s \in DOMAIN sessions : sessions[s].agent_id = agent_id})

\* rows of a relationship collection, in rowid order (no ORDER BY)
RECURSIVE SelectSeq2(_, _)
SelectSeq2(s, sid) ==
    IF s = <<>> THEN <<>>
    ELSE IF Head(s).chat_session_id = sid
         THEN <<Head(s)>> \o SelectSeq2(Tail(s), sid)
         ELSE SelectSeq2(Tail(s), sid)
SessionMessages(sid) == SelectSeq2(messages, sid)
AgentSessions(agent_id) == {s \in DOMAIN sessions : sessions[s].agent_id = agent_id}

\* exclude_unset dump applied by sqlmodel_update: only the supplied fields change
SqlmodelUpdate(row, data) ==
    [f \in DOMAIN row |-> IF f \in DOMAIN data THEN data[f] ELSE row[f]]

\* a row of table agent with NULL in a column (name and instructions are NOT NULL):
\* the UPDATE raises IntegrityError when the commit flushes it
ViolatesNotNull(row) == \E f \in DOMAIN row : row[f] = None

Remove(table, id) == [x \in DOMAIN table \ {id} |-> table[x]]

AgentPublic(id) == [kind |-> "agent", id |-> id, name |-> agents[id].name,
                    instructions |-> agents[id].instructions]
ChatSessionPublicOf(sess, id) ==
    [kind |-> "chat_session", id |-> id, name |-> sess[id].name,
     agent_id |-> sess[id].agent_id, created_at |-> sess[id].created_at]
ChatSessionPublic(id) == ChatSessionPublicOf(sessions, id)
MessagePublic(m) == [kind |-> "message", id |-> m.id, role |-> m.role, content |-> m.content,
                     chat_session_id |-> m.chat_session_id, created_at |-> m.created_at]

\* ------------------------------------------------------------------ Init
Init ==
    /\ agents = <<>>
    /\ sessions = <<>>
    /\ messages = <<>>
    /\ nextAgentId = 1
    /\ nextSessionId = 1
    /\ now = 0
    /\ nreq = 0
    /\ env \in Environments
    /\ autoNamed = <<>>
    /\ pc = [p \in Req |-> "idle"]
    /\ op = [p \in Req |-> None]
    /\ arg = [p \in Req |-> NoArg]
    /\ loc = [p \in Req |-> NoLocals]
    /\ resp = [p \in Req |-> NoResponse]
    /\ pre = [p \in Req |-> [agents |-> <<>>, sessions |-> <<>>, messages |-> <<>>]]

\* a request arrives at slot p and its handler runs to the end in this step
Finish(p, name, a, response) ==
    /\ nreq' = nreq + 1
    /\ op' = [op EXCEPT ![p] = name]
    /\ arg' = [arg EXCEPT ![p] = a]
    /\ loc' = [loc EXCEPT ![p] = NoLocals]
    /\ pre' = [pre EXCEPT ![p] = Snapshot]
    /\ resp' = [resp EXCEPT ![p] = response]
    /\ pc' = [pc EXCEPT ![p] = IF response.status \in {HTTP_200_OK, HTTP_201_CREATED}
                                 THEN "Done" ELSE "Aborted"]
    /\ UNCHANGED env

\* ------------------------------------------------------------------ agents.py
create_agent(p, body) ==
    /\ Free(p)
    /\ nextAgentId <= MaxAgents
    /\ agents' = agents @@ (nextAgentId :> [name |-> body.name, instructions |-> body.instructions])
    /\ nextAgentId' = nextAgentId + 1
    /\ UNCHANGED <<sessions, messages, nextSessionId, now, autoNamed>>
    /\ Finish(p, "create_agent", [NoArg EXCEPT !.body = body],
              [status |-> HTTP_201_CREATED, detail |-> None,
               body |-> [kind |-> "agent", id |-> nextAgentId, name |-> body.name,
                         instructions |-> body.instructions]])

read_agents(p) ==
    /\ Free(p)
    /\ UNCHANGED store
    /\ Finish(p, "read_agents", NoArg,
              Response(HTTP_200_OK, [kind |-> "agents", items |-> {AgentPublic(a) : a \in DOMAIN agents}]))

read_agent(p, agent_id) ==
    /\ Free(p)
    /\ UNCHANGED store
    /\ Finish(p, "read_agent", [NoArg EXCEPT !.agent_id = agent_id],
              IF GetAgent(agent_id) = NoId
              THEN HTTPException(HTTP_404_NOT_FOUND, "Agent not found")
              ELSE Response(HTTP_200_OK, AgentPublic(agent_id)))

\* lines 135-168; a supplied null reaches the NOT NULL column and the commit fails
update_agent(p, agent_id, body) ==
    /\ Free(p)
    /\ LET a == [NoArg EXCEPT !.agent_id = agent_id, !.body = body] IN
       IF GetAgent(agent_id) = NoId
       THEN /\ UNCHANGED store
            /\ Finish(p, "update_agent", a, HTTPException(HTTP_404_NOT_FOUND, "Agent not found"))
       ELSE IF DOMAIN body = {}
       THEN /\ UNCHANGED store
            /\ Finish(p, "update_agent", a, Response(HTTP_200_OK, AgentPublic(agent_id)))
       ELSE IF ViolatesNotNull(SqlmodelUpdate(agents[agent_id], body))
       THEN /\ UNCHANGED store
            /\ Finish(p, "update_agent", a,
                      HTTPException(HTTP_500_INTERNAL_SERVER_ERROR, "Failed to update agent"))
       ELSE LET row == SqlmodelUpdate(agents[agent_id], body) IN
            /\ agents' = [agents EXCEPT ![agent_id] = row]
            /\ UNCHANGED <<sessions, messages, nextAgentId, nextSessionId, now, autoNamed>>
            /\ Finish(p, "update_agent", a,
                      Response(HTTP_200_OK, [kind |-> "agent", id |-> agent_id, name |-> row.name,
                                             instructions |-> row.instructions]))

\* session.delete(agent): the chat_sessions relationship has no delete cascade, so the
\* unit of work first sets agent_id of every session of the agent to NULL; the column
\* is NOT NULL, the flush raises IntegrityError and the handler answers 500
delete_agentOrphaning(p, agent_id) ==
    /\ Free(p)
    /\ LET a == [NoArg EXCEPT !.agent_id = agent_id] IN
       IF GetAgent(agent_id) = NoId
       THEN /\ UNCHANGED store
            /\ Finish(p, "delete_agent", a, HTTPException(HTTP_404_NOT_FOUND, "Agent not found"))
       ELSE /\ agents' = Remove(agents, agent_id)
            /\ UNCHANGED <<sessions, messages, nextAgentId, nextSessionId, now, autoNamed>>
            /\ Finish(p, "delete_agent", a, Response(HTTP_200_OK, [kind |-> "ok", ok |-> TRUE]))
delete_agent(p, agent_id) ==
    /\ Free(p)
    /\ LET a == [NoArg EXCEPT !.agent_id = agent_id] IN
       IF GetAgent(agent_id) = NoId
       THEN /\ UNCHANGED store
            /\ Finish(p, "delete_agent", a, HTTPException(HTTP_404_NOT_FOUND, "Agent not found"))
       ELSE IF AgentSessions(agent_id) # {}
       THEN /\ UNCHANGED store
            /\ Finish(p, "delete_agent", a,
                      HTTPException(HTTP_500_INTERNAL_SERVER_ERROR, "Failed to delete agent"))
       ELSE /\ agents' = Remove(agents, agent_id)
            /\ UNCHANGED <<sessions, messages, nextAgentId, nextSessionId, now, autoNamed>>
            /\ Finish(p, "delete_agent", a, Response(HTTP_200_OK, [kind |-> "ok", ok |-> TRUE]))

\* ------------------------------------------------------------------ chat_sessions.py
\* datetime.now(timezone.utc): a reading not before the previous one
ClockReadings == {t \in Time : now <= t /\ t <= now + 1}

\* f"Chat {count + 1}"
ChatName(count) == "Chat " \o ToString(count + 1)

\* chat_session.name or f"Chat {count + 1}"
SessionName(name, count) == IF name = None \/ name = "" THEN ChatName(count) ELSE name

\* a request arrives at slot p and its handler stops at position `at`
Begin(p, name, a, at, locals) ==
    /\ nreq' = nreq + 1
    /\ op' = [op EXCEPT ![p] = name]
    /\ arg' = [arg EXCEPT ![p] = a]
    /\ loc' = [loc EXCEPT ![p] = locals]
    /\ pre' = [pre EXCEPT ![p] = Snapshot]
    /\ resp' = [resp EXCEPT ![p] = NoResponse]
    /\ pc' = [pc EXCEPT ![p] = at]
    /\ UNCHANGED env

\* the handler at slot p ends
End(p, response) ==
    /\ resp' = [resp EXCEPT ![p] = response]
    /\ pc' = [pc EXCEPT ![p] = IF response.status \in {HTTP_200_OK, HTTP_201_CREATED}
                                 THEN "Done" ELSE "Aborted"]
    /\ UNCHANGED <<op, arg, pre, nreq, env>>

\* lines 39-51: the agent lookup and the count of the agent's sessions
create_chat_session(p, agent_id, body) ==
    /\ Free(p)
    /\ UNCHANGED store
    /\ LET a == [NoArg EXCEPT !.agent_id = agent_id, !.body = body] IN
       IF GetAgent(agent_id) = NoId
       THEN Finish(p, "create_chat_session", a, HTTPException(HTTP_404_NOT_FOUND, "Agent not found"))
       ELSE Begin(p, "create_chat_session", a, "Inserting",
                  [NoLocals EXCEPT !.count = CountChatSessions(agent_id)])

\* the count taken again in the transaction that inserts
create_chat_session_insertRecount(p) ==
    /\ pc[p] = "Inserting"
    /\ nextSessionId <= MaxSessions
    /\ \E t \in ClockReadings :
        LET row == [agent_id |-> arg[p].agent_id,
                    name |-> SessionName(arg[p].body.name, CountChatSessions(arg[p].agent_id)),
                    created_at |-> t] IN
        /\ now' = t
        /\ sessions' = sessions @@ (nextSessionId :> row)
        /\ nextSessionId' = nextSessionId + 1
        /\ autoNamed' = IF arg[p].body.name # None THEN autoNamed
                        ELSE autoNamed @@ (nextSessionId :> <<row.agent_id, row.name>>)
        /\ loc' = [loc EXCEPT ![p].chat_session = nextSessionId]
        /\ UNCHANGED <<agents, messages, nextAgentId>>
        /\ End(p, Response(HTTP_201_CREATED,
                           ChatSessionPublicOf(nextSessionId :> row, nextSessionId)))
\* lines 53-67: the row is built and committed (SQLite does not enforce the foreign key)
create_chat_session_insert(p) ==
    /\ pc[p] = "Inserting"
    /\ nextSessionId <= MaxSessions
    /\ \E t \in ClockReadings :
        LET row == [agent_id |-> arg[p].agent_id,
                    name |-> SessionName(arg[p].body.name, loc[p].count),
                    created_at |-> t] IN
        /\ now' = t
        /\ sessions' = sessions @@ (nextSessionId :> row)
        /\ nextSessionId' = nextSessionId + 1
        /\ autoNamed' = IF arg[p].body.name # None THEN autoNamed
                        ELSE autoNamed @@ (nextSessionId :> <<row.agent_id, row.name>>)
        /\ loc' = [loc EXCEPT ![p].chat_session = nextSessionId]
        /\ UNCHANGED <<agents, messages, nextAgentId>>
        /\ End(p, Response(HTTP_201_CREATED,
                           ChatSessionPublicOf(nextSessionId :> row, nextSessionId)))

read_chat_sessions(p, agent_id) ==
    /\ Free(p)
    /\ UNCHANGED store
    /\ Finish(p, "read_chat_sessions", [NoArg EXCEPT !.agent_id = agent_id],
              IF GetAgent(agent_id) = NoId
              THEN HTTPException(HTTP_404_NOT_FOUND, "Agent not found")
              ELSE Response(HTTP_200_OK,
                            [kind |-> "chat_sessions",
                             items |-> {ChatSessionPublic(s) : s \in AgentSessions(agent_id)}]))

read_chat_session(p, agent_id, chat_session_id) ==
    /\ Free(p)
    /\ UNCHANGED store
    /\ Finish(p, "read_chat_session",
              [NoArg EXCEPT !.agent_id = agent_id, !.chat_session_id = chat_session_id],
              IF GetAgent(agent_id) = NoId
              THEN HTTPException(HTTP_404_NOT_FOUND, "Agent not found")
              ELSE IF FindChatSession(chat_session_id, agent_id) = NoId
              THEN HTTPException(HTTP_404_NOT_FOUND, "Chat session not found")
              ELSE Response(HTTP_200_OK, ChatSessionPublic(chat_session_id)))

update_chat_session(p, agent_id, chat_session_id, body) ==
    /\ Free(p)
    /\ LET a == [NoArg EXCEPT !.agent_id = agent_id, !.chat_session_id = chat_session_id,
                              !.body = body] IN
       IF GetAgent(agent_id) = NoId
       THEN /\ UNCHANGED store
            /\ Finish(p, "update_chat_session", a,
                      HTTPException(HTTP_404_NOT_FOUND, "Agent not found"))
       ELSE IF FindChatSession(chat_session_id, agent_id) = NoId
       THEN /\ UNCHANGED store
            /\ Finish(p, "update_chat_session", a,
                      HTTPException(HTTP_404_NOT_FOUND, "Chat session not found"))
       ELSE IF DOMAIN body = {}
       THEN /\ UNCHANGED store
            /\ Finish(p, "update_chat_session", a,
                      Response(HTTP_200_OK, ChatSessionPublic(chat_session_id)))
       ELSE LET row == SqlmodelUpdate(sessions[chat_session_id], body) IN
            /\ sessions' = [sessions EXCEPT ![chat_session_id] = row]
            /\ UNCHANGED <<agents, messages, nextAgentId, nextSessionId, now, autoNamed>>
            /\ Finish(p, "update_chat_session", a,
                      Response(HTTP_200_OK,
                               ChatSessionPublicOf(chat_session_id :> row, chat_session_id)))

\* session.delete(chat_session): the messages relationship has no delete cascade, so the
\* unit of work first sets chat_session_id of every message of the session to NULL; the
\* column is NOT NULL, the flush raises IntegrityError and the handler answers 500
delete_chat_session(p, agent_id, chat_session_id) ==
    /\ Free(p)
    /\ LET a == [NoArg EXCEPT !.agent_id = agent_id, !.chat_session_id = chat_session_id] IN
       IF GetAgent(agent_id) = NoId
       THEN /\ UNCHANGED store
            /\ Finish(p, "delete_chat_session", a,
                      HTTPException(HTTP_404_NOT_FOUND, "Agent not found"))
       ELSE IF FindChatSession(chat_session_id, agent_id) = NoId
       THEN /\ UNCHANGED store
            /\ Finish(p, "delete_chat_session", a,
                      HTTPException(HTTP_404_NOT_FOUND, "Chat session not found"))
       ELSE IF SessionMessages(chat_session_id) # <<>>
       THEN /\ UNCHANGED store
            /\ Finish(p, "delete_chat_session", a,
                      HTTPException(HTTP_500_INTERNAL_SERVER_ERROR, "Failed to delete chat session"))
       ELSE /\ sessions' = Remove(sessions, chat_session_id)
            /\ UNCHANGED <<agents, messages, nextAgentId, nextSessionId, now, autoNamed>>
            /\ Finish(p, "delete_chat_session", a, Response(HTTP_200_OK, [kind |-> "ok", ok |-> TRUE]))

\* ------------------------------------------------------------------ messages.py
\* message rows that the requests in flight will still insert
PendingWrites(q) ==
    IF op[q] # "send_message" THEN 0
    ELSE IF pc[q] \in {"Validating", "PersistingUserMessage"} THEN 2
    ELSE IF pc[q] \in {"AssemblingHistory", "GeneratingResponse", "PersistingAssistantMessage"} THEN 1
    ELSE 0
RECURSIVE SumPending(_)
SumPending(S) == IF S = {} THEN 0 ELSE LET q == CHOOSE x \in S : TRUE IN PendingWrites(q) + SumPending(S \ {q})

\* lines 218-227 and 206-216: what the except clauses of send_message make of an exception
\* raised in its try block; HTTPException is an Exception and is caught too
SendMessageExcept(exc) ==
    IF exc.kind = "SQLAlchemyError"
    THEN HTTPException(HTTP_500_INTERNAL_SERVER_ERROR, "Failed to store or retrieve messages")
    ELSE HTTPException(HTTP_500_INTERNAL_SERVER_ERROR, "Failed to process message")

RaiseHTTPException(status, detail) == [kind |-> "HTTPException", status |-> status, detail |-> detail]
RaiseRuntimeError(text) == [kind |-> "RuntimeError", status |-> 0, detail |-> text]
RaiseObjectDeleted == [kind |-> "SQLAlchemyError", status |-> 0, detail |-> "ObjectDeletedError"]
\* the database cannot serve a statement (locked, unreachable, disk full)
RaiseOperationalError == [kind |-> "SQLAlchemyError", status |-> 0, detail |-> "OperationalError"]

\* Message(role=..., content=..., chat_session_id=chat_session.id), created_at by default_factory
NewMessage(role, content, chat_session_id, t) ==
    [id |-> Len(messages) + 1, chat_session_id |-> chat_session_id, role |-> role,
     content |-> content, created_at |-> t]

\* lines 165-169 and 190-194
UserMessageRoleOfBody(p, t) ==
    NewMessage(arg[p].body.role, arg[p].body.content, loc[p].chat_session, t)
UserMessage(p, t) == NewMessage("user", arg[p].body.content, loc[p].chat_session, t)
AssistantMessageEcho(p, t) ==
    NewMessage("assistant", arg[p].body.content, loc[p].chat_session, t)
AssistantMessage(p, t) ==
    NewMessage("assistant", loc[p].openai_agent_response, loc[p].chat_session, t)

\* session.add(row); session.commit()
InsertMessageOnce(rows, row) ==
    IF /\ rows # <<>>
       /\ rows[Len(rows)].chat_session_id = row.chat_session_id
       /\ rows[Len(rows)].role = row.role
       /\ rows[Len(rows)].content = row.content
    THEN rows ELSE Append(rows, row)
InsertMessageFirst(rows, row) == <<row>> \o rows
InsertMessage(rows, row) == Append(rows, row)

\* lines 42-47: role/content pairs of chat_session.messages, in the order of the collection
HistoryItems(rows) == [i \in 1..Len(rows) |-> [content |-> rows[i].content, role |-> rows[i].role]]
GetChatSessionHistoryUnscoped(chat_session) == HistoryItems(messages)
GetChatSessionHistory(chat_session) == HistoryItems(SessionMessages(chat_session))

\* history: the user message of the request served just before at slot p, when that
\* request was a send_message with the same agent, session and body whose generation failed
FailedAttempt(p, agent_id, chat_session_id, body) ==
    IF /\ op[p] = "send_message" /\ pc[p] = "Aborted"
       /\ (loc[p].runner_input # None \/ loc[p].missing # {})
       /\ loc[p].openai_agent_response = None
       /\ arg[p].agent_id = agent_id /\ arg[p].chat_session_id = chat_session_id
       /\ arg[p].body = body
    THEN loc[p].db_user_message ELSE NoId

\* line 147: the request arrives
send_message(p, agent_id, chat_session_id, body) ==
    /\ Free(p)
    /\ Len(messages) + SumPending(Req \ {p}) + 2 <= MaxMessages
    /\ UNCHANGED store
    /\ Begin(p, "send_message",
             [NoArg EXCEPT !.agent_id = agent_id, !.chat_session_id = chat_session_id, !.body = body],
             "Validating", [NoLocals EXCEPT !.retry_of = FailedAttempt(p, agent_id, chat_session_id, body)])

\* lines 151-163
ValidatingAfterWrite(p) ==
    /\ op[p] = "send_message" /\ pc[p] = "Validating"
    /\ messages' = InsertMessage(messages, NewMessage("user", arg[p].body.content,
                                                      arg[p].chat_session_id, now))
    /\ UNCHANGED <<agents, sessions, nextAgentId, nextSessionId, now, autoNamed>>
    /\ IF GetAgent(arg[p].agent_id) = NoId
       THEN /\ End(p, SendMessageExcept(RaiseHTTPException(HTTP_404_NOT_FOUND, "Agent not found")))
            /\ UNCHANGED loc
       ELSE IF FindChatSession(arg[p].chat_session_id, arg[p].agent_id) = NoId
       THEN /\ End(p, SendMessageExcept(RaiseHTTPException(HTTP_404_NOT_FOUND, "Chat session not found")))
            /\ UNCHANGED loc
       ELSE /\ loc' = [loc EXCEPT ![p].chat_session = arg[p].chat_session_id]
            /\ pc' = [pc EXCEPT ![p] = "AssemblingHistory"]
            /\ UNCHANGED <<op, arg, resp, pre, nreq, env>>
Validating(p) ==
    /\ op[p] = "send_message" /\ pc[p] = "Validating"
    /\ UNCHANGED store
    /\ \/ IF GetAgent(arg[p].agent_id) = NoId
          THEN /\ End(p, SendMessageExcept(RaiseHTTPException(HTTP_404_NOT_FOUND, "Agent not found")))
               /\ UNCHANGED loc
          ELSE IF FindChatSession(arg[p].chat_session_id, arg[p].agent_id) = NoId
          THEN /\ End(p, SendMessageExcept(RaiseHTTPException(HTTP_404_NOT_FOUND, "Chat session not found")))
               /\ UNCHANGED loc
          ELSE /\ loc' = [loc EXCEPT ![p].chat_session = arg[p].chat_session_id]
               /\ pc' = [pc EXCEPT ![p] = "PersistingUserMessage"]
               /\ UNCHANGED <<op, arg, resp, pre, nreq, env>>
       \/ \* a lookup raises
          /\ End(p, SendMessageExcept(RaiseOperationalError))
          /\ UNCHANGED loc

\* lines 165-175: the user message is committed; the log line then reads chat_session.id of
\* the expired object, which reloads the row and raises ObjectDeletedError when it is gone.
\* When the commit raises, the except clause rolls the pending insert back.
PersistingUserMessage(p) ==
    /\ op[p] = "send_message" /\ pc[p] = "PersistingUserMessage"
    /\ \/ \E t \in ClockReadings :
            LET row == UserMessage(p, t) IN
            /\ now' = t
            /\ messages' = InsertMessage(messages, row)
            /\ loc' = [loc EXCEPT ![p].db_user_message = row.id]
            /\ UNCHANGED <<agents, sessions, nextAgentId, nextSessionId, autoNamed>>
            /\ IF loc[p].chat_session \in DOMAIN sessions
               THEN /\ pc' = [pc EXCEPT ![p] = "AssemblingHistory"]
                    /\ UNCHANGED <<op, arg, resp, pre, nreq, env>>
               ELSE End(p, SendMessageExcept(RaiseObjectDeleted))
       \/ /\ UNCHANGED <<store, loc>>
          /\ End(p, SendMessageExcept(RaiseOperationalError))

\* the history of the turns before the current one
AssemblingHistoryPriorTurns(p) ==
    /\ op[p] = "send_message" /\ pc[p] = "AssemblingHistory"
    /\ UNCHANGED store
    /\ \/ /\ loc' = [loc EXCEPT ![p].chat_session_history =
                        HistoryItems(SelectSeq(SessionMessages(loc[p].chat_session),
                                               LAMBDA m : m.id # loc[p].db_user_message))]
          /\ pc' = [pc EXCEPT ![p] = "GeneratingResponse"]
          /\ UNCHANGED <<op, arg, resp, pre, nreq, env>>
       \/ /\ UNCHANGED loc
          /\ End(p, SendMessageExcept(RaiseRuntimeError("Unable to get chat session history")))
\* line 177 and lines 27-63; when loading chat_session.messages raises, lines 61-63 turn
\* the exception into a RuntimeError
AssemblingHistory(p) ==
    /\ op[p] = "send_message" /\ pc[p] = "AssemblingHistory"
    /\ UNCHANGED store
    /\ \/ /\ loc' = [loc EXCEPT ![p].chat_session_history = GetChatSessionHistory(loc[p].chat_session)]
          /\ pc' = [pc EXCEPT ![p] = "GeneratingResponse"]
          /\ UNCHANGED <<op, arg, resp, pre, nreq, env>>
       \/ /\ UNCHANGED loc
          /\ End(p, SendMessageExcept(RaiseRuntimeError("Unable to get chat session history")))

\* [name for name, val in ... if not val]
Missing == Required \ env

\* lines 179-183 and 66-117: the external completion service answers or fails
GeneratingResponseAllOrNothing(p) ==
    /\ op[p] = "send_message" /\ pc[p] = "GeneratingResponse"
    /\ UNCHANGED <<agents, sessions, nextAgentId, nextSessionId, now, autoNamed>>
    /\ \/ \E r \in Replies :
            /\ loc' = [loc EXCEPT ![p].runner_input = arg[p].body.content,
                                  ![p].openai_agent_response = r]
            /\ pc' = [pc EXCEPT ![p] = "PersistingAssistantMessage"]
            /\ UNCHANGED <<op, arg, resp, pre, nreq, env, messages>>
       \/ /\ loc' = [loc EXCEPT ![p].runner_input = arg[p].body.content]
          /\ messages' = SelectSeq(messages, LAMBDA m : m.id # loc[p].db_user_message)
          /\ End(p, SendMessageExcept(RaiseRuntimeError("OpenAI agent response generation failed")))
\* a failed generation sent back to the history step for another attempt
GeneratingResponseRetrying(p) ==
    /\ op[p] = "send_message" /\ pc[p] = "GeneratingResponse"
    /\ UNCHANGED store
    /\ IF Missing # {}
       THEN /\ loc' = [loc EXCEPT ![p].missing = Missing]
            /\ End(p, SendMessageExcept(RaiseRuntimeError("OpenAI agent response generation failed")))
       ELSE \/ \E r \in Replies :
                 /\ loc' = [loc EXCEPT ![p].runner_input = arg[p].body.content,
                                       ![p].openai_agent_response = r]
                 /\ pc' = [pc EXCEPT ![p] = "PersistingAssistantMessage"]
                 /\ UNCHANGED <<op, arg, resp, pre, nreq, env>>
            \/ /\ loc' = [loc EXCEPT ![p].runner_input = arg[p].body.content]
               /\ pc' = [pc EXCEPT ![p] = "AssemblingHistory"]
               /\ UNCHANGED <<op, arg, resp, pre, nreq, env>>
\* lines 85-93 dropped: Runner.run is called whatever the environment holds
GeneratingResponseUnconfigured(p) ==
    /\ op[p] = "send_message" /\ pc[p] = "GeneratingResponse"
    /\ UNCHANGED store
    /\ \/ \E r \in Replies :
            /\ loc' = [loc EXCEPT ![p].runner_input = arg[p].body.content,
                                  ![p].openai_agent_response = r]
            /\ pc' = [pc EXCEPT ![p] = "PersistingAssistantMessage"]
            /\ UNCHANGED <<op, arg, resp, pre, nreq, env>>
       \/ /\ loc' = [loc EXCEPT ![p].runner_input = arg[p].body.content]
          /\ End(p, SendMessageExcept(RaiseRuntimeError("OpenAI agent response generation failed")))
\* lines 85-93: the variables are read at every call; when one is unset or empty the
\* function raises before it builds the client, and lines 115-117 re-raise the error as
\* the RuntimeError of every generation failure.  Otherwise Runner.run is called with
\* the submitted content as input and the history as session, and answers or raises.
GeneratingResponse(p) ==
    /\ op[p] = "send_message" /\ pc[p] = "GeneratingResponse"
    /\ UNCHANGED store
    /\ IF Missing # {}
       THEN /\ loc' = [loc EXCEPT ![p].missing = Missing]
            /\ End(p, SendMessageExcept(RaiseRuntimeError("OpenAI agent response generation failed")))
       ELSE \/ \E r \in Replies :
                 /\ loc' = [loc EXCEPT ![p].runner_input = arg[p].body.content,
                                       ![p].openai_agent_response = r]
                 /\ pc' = [pc EXCEPT ![p] = "PersistingAssistantMessage"]
                 /\ UNCHANGED <<op, arg, resp, pre, nreq, env>>
            \/ /\ loc' = [loc EXCEPT ![p].runner_input = arg[p].body.content]
               /\ End(p, SendMessageExcept(RaiseRuntimeError("OpenAI agent response generation failed")))

\* the assistant row put right behind the user row of its own invocation
PersistingAssistantMessageAdjacent(p) ==
    /\ op[p] = "send_message" /\ pc[p] = "PersistingAssistantMessage"
    /\ \/ \E t \in ClockReadings :
            LET row == AssistantMessage(p, t)
                k == CHOOSE i \in 1..Len(messages) : messages[i].id = loc[p].db_user_message IN
            /\ now' = t
            /\ messages' = SubSeq(messages, 1, k) \o <<row>> \o SubSeq(messages, k + 1, Len(messages))
            /\ loc' = [loc EXCEPT ![p].db_agent_response_message = row.id]
            /\ UNCHANGED <<agents, sessions, nextAgentId, nextSessionId, autoNamed>>
            /\ End(p, Response(HTTP_200_OK, MessagePublic(row)))
       \/ /\ UNCHANGED <<store, loc>>
          /\ End(p, SendMessageExcept(RaiseOperationalError))
\* the rollback at line 207 taken to undo the whole invocation
PersistingAssistantMessageUndoAll(p) ==
    /\ op[p] = "send_message" /\ pc[p] = "PersistingAssistantMessage"
    /\ \/ \E t \in ClockReadings :
            LET row == AssistantMessage(p, t) IN
            /\ now' = t
            /\ messages' = InsertMessage(messages, row)
            /\ loc' = [loc EXCEPT ![p].db_agent_response_message = row.id]
            /\ UNCHANGED <<agents, sessions, nextAgentId, nextSessionId, autoNamed>>
            /\ End(p, Response(HTTP_200_OK, MessagePublic(row)))
       \/ /\ messages' = SelectSeq(messages, LAMBDA m : m.id # loc[p].db_user_message)
          /\ UNCHANGED <<agents, sessions, nextAgentId, nextSessionId, now, autoNamed, loc>>
          /\ End(p, SendMessageExcept(RaiseOperationalError))
\* lines 190-204; when the commit raises, lines 206-216 roll back the pending insert (the
\* user message was committed at line 171 and is not part of that transaction)
PersistingAssistantMessage(p) ==
    /\ op[p] = "send_message" /\ pc[p] = "PersistingAssistantMessage"
    /\ \/ \E t \in ClockReadings :
            LET row == AssistantMessage(p, t) IN
            /\ now' = t
            /\ messages' = InsertMessage(messages, row)
            /\ loc' = [loc EXCEPT ![p].db_agent_response_message = row.id]
            /\ UNCHANGED <<agents, sessions, nextAgentId, nextSessionId, autoNamed>>
            /\ End(p, Response(HTTP_200_OK, MessagePublic(row)))
       \/ /\ UNCHANGED <<store, loc>>
          /\ End(p, SendMessageExcept(RaiseOperationalError))

\* ------------------------------------------------------------------ specification
\* the ids a client can address: those handed out so far (their rows may be gone
\* again) and one that no row ever had
AgentId == 0..(nextAgentId - 1)
SessionId == 0..(nextSessionId - 1)

\* the steps that request slot p can take
Step(p) ==
    \/ \E body \in AgentCreateBodies : create_agent(p, body)
    \/ read_agents(p)
    \/ \E a \in AgentId : read_agent(p, a)
    \/ \E a \in AgentId, body \in AgentUpdateBodies : update_agent(p, a, body)
    \/ \E a \in AgentId : delete_agent(p, a)
    \/ \E a \in AgentId, body \in ChatSessionCreateBodies : create_chat_session(p, a, body)
    \/ create_chat_session_insert(p)
    \/ \E a \in AgentId : read_chat_sessions(p, a)
    \/ \E a \in AgentId, s \in SessionId : read_chat_session(p, a, s)
    \/ \E a \in AgentId, s \in SessionId, body \in ChatSessionUpdateBodies :
            update_chat_session(p, a, s, body)
    \/ \E a \in AgentId, s \in SessionId : delete_chat_session(p, a, s)
    \/ \E a \in AgentId, s \in SessionId, body \in MessageCreateBodies :
            send_message(p, a, s, body)
    \/ Validating(p)
    \/ PersistingUserMessage(p)
    \/ AssemblingHistory(p)
    \/ GeneratingResponse(p)
    \/ PersistingAssistantMessage(p)

\* one request at a time: every request is served before the next one arrives
Next == Step(1)
Spec == Init /\ [][Next]_vars

\* requests served concurrently, one per slot, by a process started with all the
\* required environment variables
InitConfigured == Init /\ env = Required
NextConcurrent == \E p \in Req : Step(p)
SpecConcurrent == InitConfigured /\ [][NextConcurrent]_vars

\* the steps of a send_message that is in flight at slot p
Progress(p) ==
    \/ Validating(p)
    \/ PersistingUserMessage(p)
    \/ AssemblingHistory(p)
    \/ GeneratingResponse(p)
    \/ PersistingAssistantMessage(p)

\* requests served concurrently, where every store access and every generation call that
\* a send_message waits for returns or raises
SpecLive == SpecConcurrent /\ \A p \in Req : WF_vars(Progress(p))

\* ------------------------------------------------------------------ properties
Sending(p) == op[p] = "send_message"

\* the store as it was when the request at slot p arrived, but for the message rows
FrameKept(p) == agents = pre[p].agents /\ sessions = pre[p].sessions

\* the references of the request at slot p resolved when it arrived
AgentKnown(p) == arg[p].agent_id \in DOMAIN pre[p].agents
SessionKnown(p) ==
    /\ arg[p].chat_session_id \in DOMAIN pre[p].sessions
    /\ pre[p].sessions[arg[p].chat_session_id].agent_id = arg[p].agent_id

\* the generation step of the send_message at slot p failed
GenerationFailed(p) ==
    /\ Sending(p) /\ pc[p] = "Aborted"
    /\ (loc[p].runner_input # None \/ loc[p].missing # {})
    /\ loc[p].openai_agent_response = None

\* C1: a send_message that is served to the end (generation succeeded, 200) for an
\* existing agent and a session of that agent has appended exactly two rows to the
\* message table and changed nothing else: the first with role user and the submitted
\* content, the second with role assistant, both of that session.
C1_TwoMessagesAppended ==
    \A p \in Req :
        (Sending(p) /\ pc[p] = "Done") =>
            /\ AgentKnown(p) /\ SessionKnown(p)
            /\ FrameKept(p)
            /\ Len(messages) = Len(pre[p].messages) + 2
            /\ SubSeq(messages, 1, Len(pre[p].messages)) = pre[p].messages
            /\ LET u == messages[Len(messages) - 1]
                   a == messages[Len(messages)] IN
               /\ u.role = "user" /\ u.content = arg[p].body.content
               /\ u.chat_session_id = arg[p].chat_session_id
               /\ u.id = loc[p].db_user_message
               /\ a.role = "assistant"
               /\ a.chat_session_id = arg[p].chat_session_id
               /\ a.id = loc[p].db_agent_response_message
               /\ u.id # a.id

C1_Witness ==
    \E p \in Req :
        /\ Sending(p) /\ pc[p] = "Done" /\ arg[p].body.role = "assistant"
        /\ Len(messages) = Len(pre[p].messages) + 2
        /\ messages[Len(messages) - 1].role = "user"

\* C2: when the generation step of a send_message fails, the invocation has appended
\* exactly one row, the user's message, which stays stored; no assistant message is
\* stored, nothing else changed, and the caller gets status 500.
C2_GenerationFailureKeepsUserMessage ==
    \A p \in Req :
        GenerationFailed(p) =>
            /\ FrameKept(p)
            /\ Len(messages) = Len(pre[p].messages) + 1
            /\ SubSeq(messages, 1, Len(pre[p].messages)) = pre[p].messages
            /\ LET u == messages[Len(messages)] IN
               /\ u.role = "user" /\ u.content = arg[p].body.content
               /\ u.chat_session_id = arg[p].chat_session_id
               /\ u.id = loc[p].db_user_message
            /\ loc[p].db_agent_response_message = NoId
            /\ resp[p].status = HTTP_500_INTERNAL_SERVER_ERROR

C2_Witness ==
    \E p \in Req :
        /\ GenerationFailed(p)
        /\ resp[p].status = HTTP_500_INTERNAL_SERVER_ERROR
        /\ Len(messages) = Len(pre[p].messages) + 1

\* C3: a send_message addressed to an agent id without a row ends with 404 and detail
\* "Agent not found"; addressed to an existing agent and a session id that has no row or
\* is a session of another agent, it ends with 404 and detail "Chat session not found".
C3_NotFoundOutcomes ==
    \A p \in Req :
        (Sending(p) /\ pc[p] \in Terminal) =>
            /\ ~AgentKnown(p) =>
                    /\ resp[p].status = HTTP_404_NOT_FOUND
                    /\ resp[p].detail = "Agent not found"
            /\ (AgentKnown(p) /\ ~SessionKnown(p)) =>
                    /\ resp[p].status = HTTP_404_NOT_FOUND
                    /\ resp[p].detail = "Chat session not found"

\* C4: when the agent lookup or the session lookup of a send_message fails, the
\* invocation ends having stored no message, assembled no history, called no generator
\* and left the whole store as it found it.
C4_LookupFailureWritesNothing ==
    \A p \in Req :
        (Sending(p) /\ pc[p] # "Validating" /\ ~(AgentKnown(p) /\ SessionKnown(p))) =>
            /\ pc[p] = "Aborted"
            /\ FrameKept(p) /\ messages = pre[p].messages
            /\ loc[p].db_user_message = NoId
            /\ loc[p].chat_session_history = NoHistory
            /\ loc[p].runner_input = None
            /\ loc[p].db_agent_response_message = NoId

C4_Witness ==
    \E p \in Req :
        /\ Sending(p) /\ pc[p] = "Aborted"
        /\ AgentKnown(p) /\ ~SessionKnown(p)
        /\ arg[p].chat_session_id \in DOMAIN sessions
        /\ messages = pre[p].messages

\* C5: a send_message that reaches Done returns the assistant message it persisted
\* last: role assistant, the text the generator returned, the resolved session.
C5_ReturnsAssistantMessage ==
    \A p \in Req :
        (Sending(p) /\ pc[p] = "Done") =>
            /\ resp[p].status = HTTP_200_OK
            /\ resp[p].body.kind = "message"
            /\ resp[p].body.role = "assistant"
            /\ resp[p].body.content = loc[p].openai_agent_response
            /\ loc[p].openai_agent_response \in Replies
            /\ resp[p].body.chat_session_id = arg[p].chat_session_id
            /\ resp[p].body.id = loc[p].db_agent_response_message
            /\ resp[p].body = MessagePublic(messages[Len(messages)])

C5_Witness ==
    \E p \in Req :
        /\ Sending(p) /\ pc[p] = "Done"
        /\ resp[p].body.kind = "message"
        /\ resp[p].body.content \in Replies

\* C6: a send_message that succeeds right after a send_message with the same agent,
\* session and body whose generation failed appends a new user message and a new
\* assistant message; the user message of the failed attempt stays where it was, so
\* the session then ends with [user c, user c, assistant r].
C6_RetryAppendsNewPair ==
    \A p \in Req :
        (Sending(p) /\ pc[p] = "Done" /\ loc[p].retry_of # NoId) =>
            LET n == Len(pre[p].messages) IN
            /\ n >= 1
            /\ pre[p].messages[n].id = loc[p].retry_of
            /\ Len(messages) = n + 2
            /\ messages[n] = pre[p].messages[n]
            /\ \A i \in n..(n + 2) : messages[i].chat_session_id = arg[p].chat_session_id
            /\ <<[role |-> messages[n].role, content |-> messages[n].content],
                 [role |-> messages[n + 1].role, content |-> messages[n + 1].content],
                 [role |-> messages[n + 2].role, content |-> messages[n + 2].content]>>
               = <<[role |-> "user", content |-> arg[p].body.content],
                   [role |-> "user", content |-> arg[p].body.content],
                   [role |-> "assistant", content |-> loc[p].openai_agent_response]>>
            /\ loc[p].db_user_message # loc[p].retry_of
            /\ Cardinality({messages[i].id : i \in n..(n + 2)}) = 3

C6_Witness ==
    \E p \in Req :
        /\ Sending(p) /\ pc[p] = "Done" /\ loc[p].retry_of # NoId
        /\ Len(SessionMessages(arg[p].chat_session_id)) = 3

\* positions of the rows of session sid in the message table
RowsOf(sid) == {i \in 1..Len(messages) : messages[i].chat_session_id = sid}
\* row i comes before row j: earlier creation timestamp, ties by insertion order
Before(i, j) ==
    \/ messages[i].created_at < messages[j].created_at
    \/ messages[i].created_at = messages[j].created_at /\ i < j
RECURSIVE ByCreation(_)
ByCreation(S) ==
    IF S = {} THEN <<>>
    ELSE LET first == CHOOSE i \in S : \A j \in S \ {i} : Before(i, j) IN
         <<first>> \o ByCreation(S \ {first})
ExpectedHistory(sid) ==
    LET order == ByCreation(RowsOf(sid)) IN
    [k \in 1..Len(order) |-> [content |-> messages[order[k]].content,
                              role |-> messages[order[k]].role]]

\* C7: the history assembled for a session is the sequence of role/content pairs of
\* exactly the rows committed to that session at that moment, by creation timestamp
\* ascending with ties in insertion order; in send_message it ends with the user
\* message just persisted; for a session without rows it is the empty sequence.
C7_HistoryIsSessionMessagesInOrder ==
    /\ \A sid \in DOMAIN sessions : GetChatSessionHistory(sid) = ExpectedHistory(sid)
    /\ \A p \in Req :
        (Sending(p) /\ pc[p] = "GeneratingResponse") =>
            /\ loc[p].chat_session_history = ExpectedHistory(arg[p].chat_session_id)
            /\ Len(loc[p].chat_session_history) >= 1
            /\ loc[p].chat_session_history[Len(loc[p].chat_session_history)]
               = [content |-> arg[p].body.content, role |-> "user"]
            /\ messages[Len(messages)].id = loc[p].db_user_message

C7_Witness ==
    \E p \in Req :
        /\ Sending(p) /\ pc[p] = "GeneratingResponse"
        /\ Len(loc[p].chat_session_history) >= 2
        /\ loc[p].chat_session_history = GetChatSessionHistory(arg[p].chat_session_id)

\* the session that the create_chat_session at slot p inserted is the only change
SessionCreated(p) ==
    /\ loc[p].chat_session \notin DOMAIN pre[p].sessions
    /\ DOMAIN sessions = DOMAIN pre[p].sessions \cup {loc[p].chat_session}
    /\ \A s \in DOMAIN pre[p].sessions : sessions[s] = pre[p].sessions[s]
    /\ sessions[loc[p].chat_session].agent_id = arg[p].agent_id
    /\ agents = pre[p].agents /\ messages = pre[p].messages
\* sessions of the agent of the request at slot p when the request arrived
SessionsBefore(p) ==
    Cardinality({s \in DOMAIN pre[p].sessions : pre[p].sessions[s].agent_id = arg[p].agent_id})
Creating(p) == op[p] = "create_chat_session" /\ pc[p] = "Done"

\* C8 as stated: a session created without a name is stored as `Chat N`, N the number
\* of sessions of that agent at creation time plus one, whatever sessions other agents
\* have; a supplied name is stored as given.
C8_SuppliedNameStoredAsGiven ==
    \A p \in Req :
        Creating(p) =>
            /\ SessionCreated(p)
            /\ sessions[loc[p].chat_session].name =
                    IF arg[p].body.name = None
                    THEN "Chat " \o ToString(SessionsBefore(p) + 1)
                    ELSE arg[p].body.name

\* C8 amended: a session created without a name, or with an empty name, is stored as
\* `Chat N`, N the number of sessions of that agent at creation time plus one, whatever
\* sessions other agents have; a supplied non-empty name is stored as given.
C8_AutoNameCountsAgentSessions ==
    \A p \in Req :
        Creating(p) =>
            /\ SessionCreated(p)
            /\ sessions[loc[p].chat_session].name =
                    IF arg[p].body.name \in {None, ""}
                    THEN "Chat " \o ToString(SessionsBefore(p) + 1)
                    ELSE arg[p].body.name

C8_Witness ==
    \E p \in Req :
        /\ Creating(p) /\ arg[p].body.name = None
        /\ SessionsBefore(p) = 0
        /\ Cardinality(DOMAIN pre[p].sessions) = 1
        /\ sessions[loc[p].chat_session].name = "Chat 1"

\* C9: no two sessions of one agent created without a name ever receive the same
\* `Chat N`, also when sessions were deleted in between.
C9_AutoNameNeverReused ==
    \A i, j \in DOMAIN autoNamed : i # j => autoNamed[i] # autoNamed[j]

AgentScoped == {"read_agent", "update_agent", "delete_agent", "create_chat_session",
                "read_chat_sessions", "read_chat_session", "update_chat_session",
                "delete_chat_session"}
SessionScoped == {"read_chat_session", "update_chat_session", "delete_chat_session"}

\* C10: an agent or chat-session operation addressed to an agent id without a row ends
\* with 404 "Agent not found"; a GET, PATCH or DELETE of a session id that has no row or
\* is a session of another agent ends with 404 "Chat session not found"; either way no
\* entity is returned and the store is left as it was.
C10_BadReferenceIsNotFound ==
    \A p \in Req :
        /\ (op[p] \in AgentScoped /\ ~AgentKnown(p)) =>
                /\ pc[p] = "Aborted"
                /\ resp[p] = [status |-> HTTP_404_NOT_FOUND, detail |-> "Agent not found",
                              body |-> NoBody]
                /\ FrameKept(p) /\ messages = pre[p].messages
        /\ (op[p] \in SessionScoped /\ AgentKnown(p) /\ ~SessionKnown(p)) =>
                /\ pc[p] = "Aborted"
                /\ resp[p] = [status |-> HTTP_404_NOT_FOUND, detail |-> "Chat session not found",
                              body |-> NoBody]
                /\ FrameKept(p) /\ messages = pre[p].messages

C10_Witness ==
    \E p \in Req :
        /\ op[p] = "delete_chat_session" /\ AgentKnown(p) /\ ~SessionKnown(p)
        /\ arg[p].chat_session_id \in DOMAIN sessions
        /\ resp[p].status = HTTP_404_NOT_FOUND

\* C11: a PATCH of an existing agent is answered 200 with the agent as stored; the agent
\* row has the supplied fields changed to the supplied values and its other fields as
\* before; its id, every other agent, every session and every message are unchanged;
\* with an empty body nothing in the store changes.
C11_PatchChangesSuppliedFields ==
    \A p \in Req :
        (op[p] = "update_agent" /\ AgentKnown(p)) =>
            LET id == arg[p].agent_id
                row == SqlmodelUpdate(pre[p].agents[id], arg[p].body) IN
            /\ pc[p] = "Done"
            /\ resp[p] = Response(HTTP_200_OK, [kind |-> "agent", id |-> id, name |-> row.name,
                                                instructions |-> row.instructions])
            /\ agents = [pre[p].agents EXCEPT ![id] = row]
            /\ sessions = pre[p].sessions /\ messages = pre[p].messages
            /\ (DOMAIN arg[p].body = {}) => agents = pre[p].agents

\* C12: with requests served one at a time, every session's agent_id is the id of an
\* agent row; a DELETE of an agent that sessions reference either is rejected and leaves
\* the whole store as it was, or removes the agent together with all of its sessions.
C12_NoSessionWithoutAgent ==
    /\ \A s \in DOMAIN sessions : sessions[s].agent_id \in DOMAIN agents
    /\ \A p \in Req :
        (op[p] = "delete_agent" /\ AgentKnown(p) /\ SessionsBefore(p) > 0) =>
            \/ /\ pc[p] = "Aborted"
               /\ FrameKept(p) /\ messages = pre[p].messages
            \/ /\ pc[p] = "Done"
               /\ arg[p].agent_id \notin DOMAIN agents
               /\ \A s \in DOMAIN sessions : sessions[s].agent_id # arg[p].agent_id

C12_Witness ==
    \E p \in Req :
        /\ op[p] = "delete_agent" /\ AgentKnown(p) /\ SessionsBefore(p) > 0
        /\ resp[p] = HTTPException(HTTP_500_INTERNAL_SERVER_ERROR, "Failed to delete agent")
        /\ arg[p].agent_id \in DOMAIN agents
        /\ \E s \in DOMAIN sessions : sessions[s].agent_id = arg[p].agent_id

\* C13: a DELETE of an existing session addressed under its own agent is answered 200
\* {ok: true} whatever number of messages the session holds; afterwards the session has
\* no row and no message row carries its id.
C13_DeleteSessionRemovesMessages ==
    \A p \in Req :
        (op[p] = "delete_chat_session" /\ AgentKnown(p) /\ SessionKnown(p)) =>
            /\ pc[p] = "Done"
            /\ resp[p] = Response(HTTP_200_OK, [kind |-> "ok", ok |-> TRUE])
            /\ arg[p].chat_session_id \notin DOMAIN sessions
            /\ RowsOf(arg[p].chat_session_id) = {}

\* C14: when BASE_URL, API_KEY or MODEL_NAME is unset or empty, no send_message ever
\* calls the external service or obtains a reply; an invocation that reaches the
\* generation step fails there, naming exactly the absent variables, and every
\* invocation that ends is answered 500.
C14_MissingConfigurationIs500 ==
    \A p \in Req :
        (Sending(p) /\ Missing # {}) =>
            /\ loc[p].runner_input = None
            /\ loc[p].openai_agent_response = None
            /\ pc[p] \notin {"PersistingAssistantMessage", "Done"}
            /\ pc[p] = "Aborted" => resp[p].status = HTTP_500_INTERNAL_SERVER_ERROR
            /\ loc[p].missing \in {{}, Missing}
            /\ loc[p].missing # {} =>
                    /\ pc[p] = "Aborted"
                    /\ resp[p] = HTTPException(HTTP_500_INTERNAL_SERVER_ERROR,
                                               "Failed to process message")

C14_Witness ==
    \E p \in Req :
        /\ Sending(p) /\ pc[p] = "Aborted"
        /\ loc[p].db_user_message # NoId
        /\ loc[p].missing = {"MODEL_NAME"}
        /\ loc[p].runner_input = None
        /\ resp[p].status = HTTP_500_INTERNAL_SERVER_ERROR

\* C15: no step changes created_at of a session that exists before and after the step,
\* a PATCH of that session included.
C15_CreatedAtSetOnce ==
    [][\A s \in DOMAIN sessions \cap DOMAIN sessions' :
            sessions'[s].created_at = sessions[s].created_at]_vars

\* C16: with requests served concurrently the message table stays in commit order: row
\* i is the i-th row committed, and the assistant row of an invocation is committed
\* after its user row, behind every row committed in between.  Two invocations on one
\* session can therefore leave the rows u1, u2, a1, a2, where a1 does not follow u1.
C16_RowsInCommitOrder ==
    /\ \A i \in 1..Len(messages) : messages[i].id = i
    /\ \A p \in Req :
        (Sending(p) /\ pc[p] = "Done") =>
            /\ loc[p].db_user_message < loc[p].db_agent_response_message
            /\ messages[loc[p].db_user_message].role = "user"
            /\ messages[loc[p].db_agent_response_message].role = "assistant"

C16_Witness ==
    \E p, q \in Req :
        /\ p # q
        /\ Sending(p) /\ pc[p] = "Done" /\ Sending(q) /\ pc[q] = "Done"
        /\ arg[p].chat_session_id = arg[q].chat_session_id
        /\ <<loc[p].db_user_message, loc[q].db_user_message,
             loc[p].db_agent_response_message, loc[q].db_agent_response_message>> = <<1, 2, 3, 4>>
        /\ [i \in 1..4 |-> messages[i].role] = <<"user", "user", "assistant", "assistant">>
        /\ \A i \in 1..4 : messages[i].chat_session_id = arg[p].chat_session_id

\* C17: the name answered for a session created without a name is `Chat N` with N one
\* more than the number of the agent's sessions when the handler counted them, whatever
\* was inserted since; two requests that counted before either inserted give two
\* sessions of one agent the same name.
C17_AutoNameFromCountAtLookup ==
    \A p \in Req :
        (Creating(p) /\ arg[p].body.name = None) =>
            /\ loc[p].count = SessionsBefore(p)
            /\ resp[p].body.name = "Chat " \o ToString(SessionsBefore(p) + 1)

C17_Witness ==
    \E p, q \in Req :
        /\ p # q
        /\ Creating(p) /\ arg[p].body.name = None
        /\ Creating(q) /\ arg[q].body.name = None
        /\ arg[p].agent_id = arg[q].agent_id
        /\ loc[p].count = loc[q].count
        /\ {loc[p].chat_session, loc[q].chat_session} \subseteq DOMAIN sessions
        /\ sessions[loc[p].chat_session].agent_id = sessions[loc[q].chat_session].agent_id
        /\ sessions[loc[p].chat_session].name = resp[p].body.name
        /\ sessions[loc[q].chat_session].name = resp[p].body.name

\* C18: whenever a row is added to the message table, the session that its
\* chat_session_id names has a row at that moment, also with a DELETE of the session
\* served between the lookups and the write of the send_message.
C18_MessageSessionExistsWhenPersisted ==
    [][Len(messages') > Len(messages) =>
            messages'[Len(messages')].chat_session_id \in DOMAIN sessions']_vars

\* the states of an invocation of send_message, in order
Stages == <<"Validating", "PersistingUserMessage", "AssemblingHistory", "GeneratingResponse",
            "PersistingAssistantMessage", "Done">>
Successors ==
    {<<Stages[i], Stages[i + 1]>> : i \in 1..5} \cup {<<Stages[i], "Aborted">> : i \in 1..5}

\* C19: a send_message in flight changes state only to the next state of the sequence
\* Validating, PersistingUserMessage, AssemblingHistory, GeneratingResponse,
\* PersistingAssistantMessage, Done, or to Aborted; an invocation in Done or Aborted stays
\* there (the slot changes only when the next request arrives); and when every store
\* access and generation call returns or raises, every invocation ends in Done or Aborted.
C19_StagesInOrderAndTerminate ==
    /\ [][\A p \in Req :
            (Sending(p) /\ pc'[p] # pc[p]) =>
                IF pc[p] \in Terminal
                THEN nreq' = nreq + 1
                ELSE Sending(p)' /\ nreq' = nreq /\ <<pc[p], pc'[p]>> \in Successors]_vars
    /\ \A p \in Req : (Sending(p) /\ pc[p] = "Validating") ~> (Sending(p) /\ pc[p] \in Terminal)

C19_Witness ==
    \E p \in Req :
        /\ Sending(p) /\ pc[p] = "Done"
        /\ loc[p].db_user_message # NoId /\ loc[p].runner_input # None
        /\ loc[p].db_agent_response_message # NoId
        /\ \E q \in Req \ {p} : Sending(q) /\ pc[q] = "Aborted"

\* the commit of the assistant message of the send_message at slot p raised
AssistantWriteFailed(p) ==
    /\ Sending(p) /\ pc[p] = "Aborted"
    /\ loc[p].openai_agent_response # None

\* C20: when the commit of the assistant message raises, the invocation has appended
\* exactly one row, its user message, which stays stored; no assistant message of the
\* invocation is stored, nothing else changed, and the caller gets status 500.
C20_AssistantWriteFailureKeepsUserMessage ==
    \A p \in Req :
        AssistantWriteFailed(p) =>
            /\ FrameKept(p)
            /\ Len(messages) = Len(pre[p].messages) + 1
            /\ SubSeq(messages, 1, Len(pre[p].messages)) = pre[p].messages
            /\ LET u == messages[Len(messages)] IN
               /\ u.role = "user" /\ u.content = arg[p].body.content
               /\ u.chat_session_id = arg[p].chat_session_id
               /\ u.id = loc[p].db_user_message
            /\ loc[p].db_agent_response_message = NoId
            /\ resp[p] = HTTPException(HTTP_500_INTERNAL_SERVER_ERROR,
                                       "Failed to store or retrieve messages")

C20_Witness ==
    \E p \in Req :
        /\ AssistantWriteFailed(p)
        /\ loc[p].openai_agent_response \in Replies
        /\ resp[p].status = HTTP_500_INTERNAL_SERVER_ERROR
        /\ \E i \in 1..Len(messages) : messages[i].id = loc[p].db_user_message
        /\ \A i \in 1..Len(messages) : messages[i].role # "assistant"

\* rows with the given role among the first n rows of the table that carry session id sid
RoleCount(sid, role, n) ==
    Cardinality({i \in 1..n : messages[i].chat_session_id = sid /\ messages[i].role = role})

\* C21: with requests served concurrently, in every state the assistant row of an
\* invocation is behind the user row of the same invocation and carries the same session
\* id; up to every row of the table a session id has at most as many assistant rows as
\* user rows, so every session holds at most as many assistant as user messages.
C21_AssistantAfterOwnUserMessage ==
    /\ \A p \in Req :
        (Sending(p) /\ loc[p].db_agent_response_message # NoId) =>
            /\ loc[p].db_user_message # NoId
            /\ \E i, j \in 1..Len(messages) :
                /\ i < j
                /\ messages[i].id = loc[p].db_user_message /\ messages[i].role = "user"
                /\ messages[j].id = loc[p].db_agent_response_message
                /\ messages[j].role = "assistant"
                /\ messages[i].chat_session_id = messages[j].chat_session_id
    /\ \A n \in 1..Len(messages) :
        RoleCount(messages[n].chat_session_id, "assistant", n)
            <= RoleCount(messages[n].chat_session_id, "user", n)

C21_Witness ==
    \E p, q \in Req :
        /\ p # q
        /\ Sending(p) /\ pc[p] = "Done"
        /\ Sending(q) /\ pc[q] = "PersistingAssistantMessage"
        /\ arg[p].chat_session_id = arg[q].chat_session_id
        /\ loc[p].db_user_message < loc[q].db_user_message
        /\ loc[q].db_user_message < loc[p].db_agent_response_message
        /\ RoleCount(arg[p].chat_session_id, "user", Len(messages)) = 2
        /\ RoleCount(arg[p].chat_session_id, "assistant", Len(messages)) = 1

\* the generator was called by the send_message at slot p
RunnerCalled(p) == Sending(p) /\ loc[p].runner_input # None

\* C22: with requests served one at a time, whenever a send_message has called the
\* generator, the history it passed ends with the user message it has just committed
\* and the input it passed is the content of that same message: the content of the
\* current turn is handed over twice.
C22_UserContentPassedTwice ==
    \A p \in Req :
        RunnerCalled(p) =>
            LET h == loc[p].chat_session_history IN
            /\ h # NoHistory /\ Len(h) >= 1
            /\ h[Len(h)] = [content |-> arg[p].body.content, role |-> "user"]
            /\ loc[p].runner_input = arg[p].body.content
            /\ \E i \in 1..Len(messages) :
                /\ messages[i].id = loc[p].db_user_message
                /\ messages[i].content = loc[p].runner_input
                /\ h = HistoryItems(SelectSeq(SubSeq(messages, 1, i),
                        LAMBDA m : m.chat_session_id = arg[p].chat_session_id))

C22_Witness ==
    \E p \in Req :
        /\ RunnerCalled(p) /\ pc[p] = "PersistingAssistantMessage"
        /\ Len(loc[p].chat_session_history) = 3
        /\ loc[p].chat_session_history[3].content = loc[p].runner_input
        /\ loc[p].chat_session_history[2].role = "assistant"

====
